---- MODULE Spec2Model ----
(***************************************************************************)
(* Model of flask_backend/app copy.py: the session-scoped conversation     *)
(* history (get_history, add_message), the index/reset handler, the chat   *)
(* handler and the recommendation handler, around one outbound call to the *)
(* completion service.                                                     *)
(*                                                                         *)
(* Python values are records [t, s, n]: t is the type, s the characters of *)
(* a str (a sequence of one-character strings), n the value of an int or   *)
(* bool, or the number of items of a list.  A dict is a function from its  *)
(* keys to values.  The Flask session is a dict kept by the client in a    *)
(* signed cookie: every request opens its own copy and the response writes *)
(* the copy back only when the handler modified it.  A cookie signed more  *)
(* than permanent_session_lifetime ago opens as an empty session.          *)
(***************************************************************************)
EXTENDS Integers, Sequences, FiniteSets, TLC

VARIABLES
    cookie,    \* the session dict the client holds (the session cookie)
    pc,        \* per request slot: "idle", "chat_call" or "rec_call"
    session,   \* per request slot: the request's session, [data, modified]
    pre,       \* per request slot: the session dict the request opened
    request,   \* per request slot: the request being / last handled
    gateway,   \* per request slot: the call to the completion service
    response,  \* per request slot: the response of the last request
    expired,   \* the cookie was signed more than the session lifetime ago
    written,   \* the history the requests have stored since the last reset
    added      \* the turns given to add_message (SpecAdd only)

vars == <<cookie, pc, session, pre, request, gateway, response, expired, written, added>>

\* ------------------------------------------------------------------ bounds

\* The longest history a chat request may leave behind.
MaxTurns == 5
\* The longest history a chat request may leave behind when the requests of
\* a session overlap (SpecConc).
MaxConcTurns == 4
\* The number of add_message calls of SpecAdd.
MaxAdds == 2

Requests == {1, 2}
\* The slot used when the requests of a session are handled one at a time.
SeqRequests == {1}

\* ----------------------------------------------------------- Python values

PyNone == [t |-> "none", s |-> <<>>, n |-> 0]
PyStr(chars) == [t |-> "str", s |-> chars, n |-> 0]
PyInt(i) == [t |-> "int", s |-> <<>>, n |-> i]
PyBool(b) == [t |-> "bool", s |-> <<>>, n |-> IF b THEN 1 ELSE 0]
PyList(len) == [t |-> "list", s |-> <<>>, n |-> len]

EmptyDict == [k \in {} |-> PyNone]

\* bool(v)
Truthy(v) ==
    CASE v.t = "none" -> FALSE
      [] v.t = "str" -> v.s # <<>>
      [] v.t = "int" -> v.n # 0
      [] v.t = "bool" -> v.n = 1
      [] v.t = "list" -> v.n > 0

\* d.get(key, default)
DictGet(d, key, default) == IF key \in DOMAIN d THEN d[key] ELSE default

\* d[key] = value
DictSet(d, key, value) ==
    [k \in DOMAIN d \cup {key} |-> IF k = key THEN value ELSE d[k]]

\* d.pop(key, None), the dict afterwards
DictPop(d, key) == [k \in DOMAIN d \ {key} |-> d[k]]

\* The characters str.strip() removes (str.isspace) among those a string of
\* this module can hold: tab, LF, VT, FF, CR, FS, GS, RS, US, space, NEL,
\* NBSP and U+1680.  The remaining ones (U+2000 to U+200A, U+2028, U+2029,
\* U+202F, U+205F, U+3000) cannot be written in a string here, so no message
\* of the model contains them.
IsSpace(c) ==
    c \in {" ", "\t", "\n", "\f", "\r", "", "", "", "", "", "", " ", " "}

RECURSIVE lstrip(_)
lstrip(chars) ==
    IF chars = <<>> THEN <<>>
    ELSE IF IsSpace(Head(chars)) THEN lstrip(Tail(chars))
    ELSE chars

RECURSIVE rstrip(_)
rstrip(chars) ==
    IF chars = <<>> THEN <<>>
    ELSE IF IsSpace(chars[Len(chars)]) THEN rstrip(SubSeq(chars, 1, Len(chars) - 1))
    ELSE chars

\* str.strip()
strip(chars) == rstrip(lstrip(chars))

Digit(d) == <<"0", "1", "2", "3", "4", "5", "6", "7", "8", "9">>[d + 1]

\* str(i) of an int i >= 0
RECURSIVE IntToStr(_)
IntToStr(i) ==
    IF i < 10 THEN <<Digit(i)>> ELSE IntToStr(i \div 10) \o <<Digit(i % 10)>>

\* format(v, ""), what an f-string field renders
PyFormat(v) ==
    CASE v.t = "none" -> <<"N", "o", "n", "e">>
      [] v.t = "str" -> v.s
      [] v.t = "int" -> IntToStr(v.n)
      [] v.t = "bool" -> IF v.n = 1 THEN <<"T", "r", "u", "e">>
                         ELSE <<"F", "a", "l", "s", "e">>

\* --------------------------------------------------------------- constants

SYSTEM_PROMPT == <<"E","r","e","s"," ","u","n"," ","a","s","i","s","t","e","n","t","e"," ","ú","t","i","l"," ","y"," ","c","l","a","r","o","."," ","R","e","s","p","o","n","d","e"," ","e","n"," ","e","s","p","a","ñ","o","l"," ","c","o","n"," ","p","r","e","c","i","s","i","ó","n"," ","y"," ","b","r","e","v","e","d","a","d",".">>

MensajeVacio == <<"M","e","n","s","a","j","e"," ","v","a","c","í","o">>

Turn(role, content) == [role |-> role, content |-> content]

SystemTurn == Turn("system", PyStr(SYSTEM_PROMPT))

\* ----------------------------------------------------------- Flask session

\* The session a request starts with: the client's dict, not yet modified,
\* or an empty session when the cookie is older than the session lifetime.
open_session(stored, too_old) ==
    [data |-> IF too_old THEN EmptyDict ELSE stored, modified |-> FALSE]

\* The client's dict after the response: replaced only by a modified session.
save_session(s, stored) == IF s.modified THEN s.data ELSE stored

\* A plausible slip: the history is emptied instead of removed.
session_pop_to_empty_list(s, key) ==
    [data |-> DictSet(s.data, key, <<>>), modified |-> TRUE]

\* session.pop("history", None): the session is marked as modified only when
\* the key was there.
session_pop(s, key) ==
    [data |-> DictPop(s.data, key), modified |-> s.modified \/ key \in DOMAIN s.data]

\* session[key] = value
session_set(s, key, value) == [data |-> DictSet(s.data, key, value), modified |-> TRUE]

\* --------------------------------------------------------- history manager

\* The session after get_history(); the list it returns is data["history"].
get_history(s) ==
    IF "history" \notin DOMAIN s.data
    THEN session_set(s, "history", <<SystemTurn>>)
    ELSE s

History(s) == get_history(s).data["history"]

\* A plausible slip: the new turn is put first.
add_message_first(s, role, content) ==
    session_set(get_history(s), "history", <<Turn(role, content)>> \o History(s))

\* A plausible slip: the list is appended to in place and never written back,
\* so the session is not marked as modified.
add_message_no_write_back(s, role, content) ==
    [data |-> DictSet(get_history(s).data, "history",
                      Append(History(s), Turn(role, content))),
     modified |-> get_history(s).modified]

\* The session after add_message(role, content).
add_message(s, role, content) ==
    LET s1 == get_history(s)
        history == Append(s1.data["history"], Turn(role, content))
    IN  session_set(s1, "history", history)

\* ------------------------------------------------------- requests, replies

\* What request.get_json(silent=True) returns: None for a missing or
\* unparseable body, else the parsed JSON value (a dict d, or another value v).
JNone == [t |-> "none", d |-> EmptyDict, v |-> PyNone]
JDict(d) == [t |-> "dict", d |-> d, v |-> PyNone]
JOther(v) == [t |-> "other", d |-> EmptyDict, v |-> v]

\* request.get_json(silent=True) or {}
OrEmpty(body) ==
    IF body.t = "dict" THEN body
    ELSE IF body.t = "none" \/ ~Truthy(body.v) THEN JDict(EmptyDict)
    ELSE body

Hola == <<"H", "o", "l", "a">>

ChatBodies ==
    { JNone,
      JDict(EmptyDict),
      JDict([message |-> PyStr(<<>>)]),
      JDict([message |-> PyStr(<<" ", "\f", " ", "\n">>)]),
      JDict([message |-> PyStr(Hola)]),
      JDict([message |-> PyStr(<<"\f", " ">> \o Hola \o <<" ", "\n">>)]),
      JDict([message |-> PyStr(<<"s", "i", " ", "?">>)]),
      JDict([message |-> PyNone]),
      JDict([message |-> PyInt(5)]),
      JOther(PyList(0)),
      JOther(PyList(1)) }

\* request.args.get("new")
NewArgs == {PyNone, PyStr(<<"1">>), PyStr(<<"0">>)}

\* resp.choices[0].message.content
Replies == {PyStr(<<"¡", "H", "o", "l", "a", "!">>), PyStr(<<" ", " ", "o", "k", "\n">>), PyNone}

\* str(e) of the errors the call raises
Errors == {<<"t", "i", "m", "e", "o", "u", "t">>, <<"4", "2", "9">>}

NoRequest == [route |-> "none", body |-> JNone, new |-> PyNone]
NoCall == [outcome |-> "none", messages |-> <<>>, value |-> PyNone]
NoResponse == [status |-> 0, body |-> EmptyDict]

Response(status, body) == [status |-> status, body |-> body]

\* render_template("index.html")
IndexPage == Response(200, [html |-> PyStr(<<"i", "n", "d", "e", "x">>)])

\* An exception no handler catches: the framework's 500 page.
InternalServerError == Response(500, [html |-> PyStr(<<"5", "0", "0">>)])

\* What a handler does before it returns or calls the completion service.
Respond(s, resp) == [kind |-> "respond", session |-> s, response |-> resp, messages |-> <<>>]
Call(s, messages) == [kind |-> "call", session |-> s, response |-> NoResponse, messages |-> messages]

\* ------------------------------------------------------------ chat handler

\* A plausible slip: the messages are read before the user turn is added.
chat_call_before_append(s, user_msg) ==
    Call(add_message(s, "user", PyStr(user_msg)), History(s))

\* The user turn is added, then the call is made with get_history().
chat_call(s, user_msg) ==
    LET s1 == add_message(s, "user", PyStr(user_msg))
    IN  Call(get_history(s1), History(s1))

\* A plausible slip: the history is fetched before the message is validated.
chat_reject_after_get_history(s) ==
    Respond(get_history(s), Response(400, [ok |-> PyBool(FALSE), error |-> PyStr(MensajeVacio)]))

\* The empty-message answer.
chat_reject(s) ==
    Respond(s, Response(400, [ok |-> PyBool(FALSE), error |-> PyStr(MensajeVacio)]))

\* chat() up to its first return or to the call of the completion service.
chat_handler(s, body) ==
    LET data == OrEmpty(body)
    IN  IF data.t # "dict"
        THEN Respond(s, InternalServerError)      \* data.get: AttributeError
        ELSE LET message == DictGet(data.d, "message", PyStr(<<>>))
             IN  IF message.t # "str"
                 THEN Respond(s, InternalServerError)  \* .strip: AttributeError
                 ELSE LET user_msg == strip(message.s)
                      IN  IF user_msg = <<>>
                          THEN chat_reject(s)
                          ELSE chat_call(s, user_msg)

\* A plausible slip: the orphaned user turn is taken back on failure.
chat_except_rollback(s, e) ==
    Respond(session_set(s, "history", SubSeq(History(s), 1, Len(History(s)) - 1)),
            Response(500, [ok |-> PyBool(FALSE), error |-> PyStr(e)]))

\* chat() after the call raised e.
chat_except(s, e) ==
    Respond(s, Response(500, [ok |-> PyBool(FALSE), error |-> PyStr(e)]))

\* chat() after the call returned reply.
chat_reply(s, reply) ==
    Respond(add_message(s, "assistant", reply),
            Response(200, [ok |-> PyBool(TRUE), reply |-> reply]))

\* -------------------------------------------------- recommendation handler

RecBodies ==
    { JNone,
      JDict([crop_name |-> PyStr(<<"m", "a", "í", "z">>),
             location_name |-> PyStr(<<"V", "a", "l", "l", "e">>),
             feasibility_level |-> PyStr(<<"a", "l", "t", "a">>),
             feasibility_score |-> PyInt(9),
             temperature |-> PyInt(25),
             soil_moisture |-> PyInt(40),
             precipitation |-> PyInt(120)]),
      JDict([crop_name |-> PyStr(<<"m", "a", "í", "z">>), temperature |-> PyInt(0)]),
      JOther(PyList(1)) }

\* The f-string of ai_recommendation over the fields of data.
user_prompt(data) ==
    <<"P","a","r","a"," ","e","l"," ","c","u","l","t","i","v","o"," ">>
    \o PyFormat(DictGet(data, "crop_name", PyNone))
    \o <<" ","e","n"," ">>
    \o PyFormat(DictGet(data, "location_name", PyNone))
    \o <<":"," ","V","i","a","b","i","l","i","d","a","d"," ">>
    \o PyFormat(DictGet(data, "feasibility_level", PyNone))
    \o <<" ","(","p","u","n","t","u","a","c","i","ó","n"," ">>
    \o PyFormat(DictGet(data, "feasibility_score", PyNone))
    \o <<")","."," ","C","o","n","d","i","c","i","o","n","e","s",":"," ">>
    \o PyFormat(DictGet(data, "temperature", PyNone))
    \o <<"°","C",","," ","h","u","m","e","d","a","d"," ","d","e","l"," ","s","u","e","l","o"," ">>
    \o PyFormat(DictGet(data, "soil_moisture", PyNone))
    \o <<"%",","," ","p","r","e","c","i","p","i","t","a","c","i","ó","n"," ">>
    \o PyFormat(DictGet(data, "precipitation", PyNone))
    \o <<" ","m","m","."," ","¿","Q","u","é"," ","r","e","c","o","m","e","n","d","a","c","i","o","n","e","s"," ","p","u","e","d","e","s"," ","d","a","r"," ","a","l"," ","a","g","r","i","c","u","l","t","o","r","?">>

\* A plausible slip: the prompt goes through the conversation history.
rec_call_through_history(s, prompt) ==
    LET s1 == add_message(s, "user", PyStr(prompt))
    IN  Call(get_history(s1), History(s1))

\* The one-shot call: the system turn and the built prompt.
rec_call(s, prompt) ==
    Call(s, <<SystemTurn, Turn("user", PyStr(prompt))>>)

\* ai_recommendation() up to the call of the completion service.
ai_recommendation_handler(s, body) ==
    LET data == OrEmpty(body)
    IN  IF data.t # "dict"
        THEN Respond(s, InternalServerError)      \* data.get: AttributeError
        ELSE rec_call(s, user_prompt(data.d))

\* ai_recommendation() after the call raised e.
rec_except(s, e) == Respond(s, Response(500, [error |-> PyStr(e)]))

\* str(e) of the AttributeError of None.strip()
NoneHasNoStrip == <<"'","N","o","n","e","T","y","p","e","'"," ","o","b","j","e","c","t"," ","h","a","s"," ","n","o"," ","a","t","t","r","i","b","u","t","e"," ","'","s","t","r","i","p","'">>

\* ai_recommendation() after the call returned content.
rec_reply(s, content) ==
    IF content.t # "str"
    THEN rec_except(s, NoneHasNoStrip)
    ELSE Respond(s, Response(200, [message |-> PyStr(strip(content.s))]))

\* ------------------------------------------------------------------ steps

\* The history a session dict stores, empty when it stores none.
StoredHistory(d) == IF "history" \in DOMAIN d THEN d["history"] ELSE <<>>

IsReset(req) == req.route = "index" /\ req.new = PyStr(<<"1">>)

\* The response of a request that ends with session s: a modified session is
\* signed anew and replaces the client's cookie.
Save(s, req) ==
    /\ cookie' = save_session(s, cookie)
    /\ expired' = (expired /\ ~s.modified)
    /\ written' = IF IsReset(req) THEN <<>>
                  ELSE IF s.modified THEN StoredHistory(s.data)
                  ELSE written

\* A request arrives at slot r and runs until it returns or calls out.
Begin(r, req, result, at) ==
    /\ pc[r] = "idle"
    /\ request' = [request EXCEPT ![r] = req]
    /\ pre' = [pre EXCEPT ![r] = open_session(cookie, expired).data]
    /\ session' = [session EXCEPT ![r] = result.session]
    /\ response' = [response EXCEPT ![r] = result.response]
    /\ IF result.kind = "respond"
       THEN /\ pc' = pc
            /\ gateway' = [gateway EXCEPT ![r] = NoCall]
            /\ Save(result.session, req)
       ELSE /\ pc' = [pc EXCEPT ![r] = at]
            /\ gateway' = [gateway EXCEPT ![r] =
                  [outcome |-> "pending", messages |-> result.messages, value |-> PyNone]]
            /\ UNCHANGED <<cookie, expired, written>>
    /\ UNCHANGED added

\* The call of slot r ends and the handler runs to its return.
Finish(r, outcome, value, result) ==
    /\ pc' = [pc EXCEPT ![r] = "idle"]
    /\ gateway' = [gateway EXCEPT ![r].outcome = outcome, ![r].value = value]
    /\ session' = [session EXCEPT ![r] = result.session]
    /\ response' = [response EXCEPT ![r] = result.response]
    /\ Save(result.session, request[r])
    /\ UNCHANGED <<pre, request, added>>

\* GET / with the query argument new
index(r, new) ==
    LET s == open_session(cookie, expired)
    IN  /\ pc[r] = "idle"
        /\ Begin(r, [route |-> "index", body |-> JNone, new |-> new],
                 Respond(IF new = PyStr(<<"1">>) THEN session_pop(s, "history") ELSE s,
                         IndexPage),
                 "idle")

\* POST /api/chat
chat(r, body) ==
    /\ pc[r] = "idle"
    /\ Begin(r, [route |-> "chat", body |-> body, new |-> PyNone],
             chat_handler(open_session(cookie, expired), body), "chat_call")

chat_gateway_raises(r, e) ==
    /\ pc[r] = "chat_call"
    /\ Finish(r, "raised", PyStr(e), chat_except(session[r], e))

chat_gateway_returns(r, reply) ==
    /\ pc[r] = "chat_call"
    /\ Finish(r, "returned", reply, chat_reply(session[r], reply))

\* POST /api/ai-recommendation
ai_recommendation(r, body) ==
    /\ pc[r] = "idle"
    /\ Begin(r, [route |-> "rec", body |-> body, new |-> PyNone],
             ai_recommendation_handler(open_session(cookie, expired), body), "rec_call")

rec_gateway_raises(r, e) ==
    /\ pc[r] = "rec_call"
    /\ Finish(r, "raised", PyStr(e), rec_except(session[r], e))

rec_gateway_returns(r, content) ==
    /\ pc[r] = "rec_call"
    /\ Finish(r, "returned", content, rec_reply(session[r], content))

\* The bound of a specification: a chat request that goes on to add turns
\* is taken only while the history it leaves stays within limit.
WithinBound(body, limit) ==
    chat_handler(open_session(cookie, expired), body).kind = "call"
        => Len(History(open_session(cookie, expired))) + 2 <= limit

\* The session lifetime (6 hours) passes without the cookie being signed anew.
session_expires ==
    /\ cookie # EmptyDict
    /\ ~expired
    /\ expired' = TRUE
    /\ UNCHANGED <<cookie, pc, session, pre, request, gateway, response, written, added>>

Init ==
    /\ cookie = EmptyDict
    /\ pc = [r \in Requests |-> "idle"]
    /\ session = [r \in Requests |-> open_session(EmptyDict, FALSE)]
    /\ pre = [r \in Requests |-> EmptyDict]
    /\ request = [r \in Requests |-> NoRequest]
    /\ gateway = [r \in Requests |-> NoCall]
    /\ response = [r \in Requests |-> NoResponse]
    /\ expired = FALSE
    /\ written = <<>>
    /\ added = <<>>

Next ==
    \/ \E r \in SeqRequests, new \in NewArgs : index(r, new)
    \/ \E r \in SeqRequests, body \in ChatBodies :
          WithinBound(body, MaxTurns) /\ chat(r, body)
    \/ \E r \in SeqRequests, e \in Errors : chat_gateway_raises(r, e)
    \/ \E r \in SeqRequests, reply \in Replies : chat_gateway_returns(r, reply)
    \/ \E r \in SeqRequests, body \in RecBodies : ai_recommendation(r, body)
    \/ \E r \in SeqRequests, e \in Errors : rec_gateway_raises(r, e)
    \/ \E r \in SeqRequests, content \in Replies : rec_gateway_returns(r, content)
    \/ session_expires

Spec == Init /\ [][Next]_vars

\* ------------------------------------ overlapping requests of one session

ConcBodies ==
    { JDict([message |-> PyStr(Hola)]),
      JDict([message |-> PyStr(<<"s", "i", " ", "?">>)]) }

ConcNewArgs == {PyNone, PyStr(<<"1">>)}

ConcReplies == {PyStr(<<" ", "o", "k", "\n">>)}

ConcErrors == {<<"4", "2", "9">>}

ConcRecBodies == {JNone}

NextConc ==
    \/ \E r \in Requests, new \in ConcNewArgs : index(r, new)
    \/ \E r \in Requests, body \in ConcBodies :
          WithinBound(body, MaxConcTurns) /\ chat(r, body)
    \/ \E r \in Requests, e \in ConcErrors : chat_gateway_raises(r, e)
    \/ \E r \in Requests, reply \in ConcReplies : chat_gateway_returns(r, reply)
    \/ \E r \in Requests, body \in ConcRecBodies : ai_recommendation(r, body)
    \/ \E r \in Requests, e \in ConcErrors : rec_gateway_raises(r, e)
    \/ \E r \in Requests, content \in ConcReplies : rec_gateway_returns(r, content)
    \/ session_expires

SpecConc == Init /\ [][NextConc]_vars

\* ------------------------------------------------- add_message on its own

\* The session dicts add_message starts from.
AddStarts ==
    { EmptyDict,
      [history |-> <<SystemTurn>>],
      [history |-> <<SystemTurn, Turn("user", PyStr(Hola))>>],
      [history |-> <<SystemTurn, Turn("user", PyStr(Hola)), Turn("assistant", PyNone)>>] }

AddRoles == {"system", "user", "assistant"}

AddContents == {PyStr(Hola), PyStr(<<>>), PyNone}

InitAdd ==
    /\ cookie \in AddStarts
    /\ pc = [r \in Requests |-> "idle"]
    /\ session = [r \in Requests |-> open_session(cookie, FALSE)]
    /\ pre = [r \in Requests |-> cookie]
    /\ request = [r \in Requests |-> NoRequest]
    /\ gateway = [r \in Requests |-> NoCall]
    /\ response = [r \in Requests |-> NoResponse]
    /\ expired = FALSE
    /\ written = <<>>
    /\ added = <<>>

\* One call add_message(role, content) in the request of slot 1.
AddMessage(role, content) ==
    /\ session' = [session EXCEPT ![1] = add_message(session[1], role, content)]
    /\ added' = Append(added, Turn(role, content))
    /\ UNCHANGED <<cookie, pc, pre, request, gateway, response, expired, written>>

NextAdd ==
    \E role \in AddRoles, content \in AddContents :
        Len(added) < MaxAdds /\ AddMessage(role, content)

SpecAdd == InitAdd /\ [][NextAdd]_vars

\* ------------------------------------------------------------ properties

IsPrefix(a, b) == Len(a) <= Len(b) /\ SubSeq(b, 1, Len(a)) = a

\* The history a request works on when it opens the dict d: the stored one,
\* or the system turn alone.
HistoryBefore(d) == IF "history" \in DOMAIN d THEN d["history"] ELSE <<SystemTurn>>

AllSpace(chars) == \A i \in 1..Len(chars) : IsSpace(chars[i])

\* c is chars without its leading and trailing whitespace.
IsTrimOf(c, chars) ==
    /\ c # <<>> => ~IsSpace(c[1]) /\ ~IsSpace(c[Len(c)])
    /\ \E i \in 0..Len(chars) :
          /\ i + Len(c) <= Len(chars)
          /\ SubSeq(chars, i + 1, i + Len(c)) = c
          /\ AllSpace(SubSeq(chars, 1, i))
          /\ AllSpace(SubSeq(chars, i + Len(c) + 1, Len(chars)))

\* The turn is the user turn of the chat request req.
IsUserTurnOf(turn, req) ==
    /\ turn.role = "user"
    /\ turn.content.t = "str"
    /\ IsTrimOf(turn.content.s, req.body.d["message"].s)

EmptyMessageAnswer == Response(400, [ok |-> PyBool(FALSE), error |-> PyStr(MensajeVacio)])

\* C1: whatever requests a session has seen, get_history returns a non-empty
\* sequence whose first element is the system turn, and on a session without
\* history it stores exactly that one turn.
C1_HistoryStartsWithSystemTurn ==
    \A r \in Requests : \A s \in {open_session(cookie, expired), session[r]} :
        /\ get_history(s).data["history"] # <<>>
        /\ Head(get_history(s).data["history"]) = SystemTurn
        /\ "history" \notin DOMAIN s.data
              => get_history(s).data["history"] = <<SystemTurn>>

C1_Witness ==
    \E r \in Requests :
        /\ request[r].route = "chat"
        /\ response[r].status = 200
        /\ Len(StoredHistory(cookie)) >= 5

\* C2: after N calls of add_message the session's history is the history
\* before (the system turn alone if there was none) followed by the N turns
\* in call order: its length grew by N and no earlier turn moved.
C2_AddMessageAppendOnly ==
    LET before == HistoryBefore(pre[1])
        after == StoredHistory(session[1].data)
    IN  added # <<>> =>
            /\ Len(after) = Len(before) + Len(added)
            /\ \A i \in 1..Len(before) : after[i] = before[i]
            /\ \A j \in 1..Len(added) : after[Len(before) + j] = added[j]

C2_Witness == Len(added) >= 2 /\ pre[1] = EmptyDict /\ added[1] # added[2]

\* The body has no message field, or a message that is not a non-empty
\* string after trimming.
InvalidMessage(body) ==
    \/ body.t # "dict"
    \/ "message" \notin DOMAIN body.d
    \/ body.d["message"].t # "str"
    \/ AllSpace(body.d["message"].s)

\* C3: every chat request without a message, or with a message that is not
\* a non-empty string after trimming, is answered 400 "Mensaje vacío".
C3_InvalidMessageIsRejected ==
    \A r \in Requests :
        (/\ request[r].route = "chat"
         /\ response[r].status # 0
         /\ InvalidMessage(request[r].body))
        => response[r] = EmptyMessageAnswer

\* C4: when the call of a chat request raises, the answer is 500 with the
\* error text and the stored history is the history before plus the user
\* turn alone: 2 turns on a fresh session.
C4_GatewayFailureKeepsUserTurn ==
    \A r \in Requests :
        (request[r].route = "chat" /\ gateway[r].outcome = "raised") =>
            LET before == HistoryBefore(pre[r])
                after == StoredHistory(cookie)
            IN  /\ response[r] =
                      Response(500, [ok |-> PyBool(FALSE), error |-> gateway[r].value])
                /\ Len(after) = Len(before) + 1
                /\ SubSeq(after, 1, Len(before)) = before
                /\ IsUserTurnOf(after[Len(after)], request[r])
                /\ pre[r] = EmptyDict => Len(after) = 2

C4_Witness ==
    \E r \in Requests :
        /\ request[r].route = "chat"
        /\ gateway[r].outcome = "raised"
        /\ Len(StoredHistory(pre[r])) >= 2
        /\ request[r].body.d["message"].s # StoredHistory(cookie)[Len(StoredHistory(cookie))].content.s

\* C5: when the call of a chat request returns, the answer is 200 with the
\* reply and the stored history is the history before, the user turn and the
\* assistant turn, in that order: 3 turns on a fresh session.
C5_ReplyIsAppended ==
    \A r \in Requests :
        (request[r].route = "chat" /\ gateway[r].outcome = "returned") =>
            LET before == HistoryBefore(pre[r])
                after == StoredHistory(cookie)
            IN  /\ response[r] =
                      Response(200, [ok |-> PyBool(TRUE), reply |-> gateway[r].value])
                /\ Len(after) = Len(before) + 2
                /\ SubSeq(after, 1, Len(before)) = before
                /\ IsUserTurnOf(after[Len(after) - 1], request[r])
                /\ after[Len(after)] = Turn("assistant", gateway[r].value)
                /\ pre[r] = EmptyDict => Len(after) = 3

C5_Witness ==
    \E r \in Requests :
        /\ request[r].route = "chat"
        /\ gateway[r].outcome = "returned"
        /\ Len(StoredHistory(pre[r])) >= 2
        /\ Len(StoredHistory(cookie)) = Len(StoredHistory(pre[r])) + 2

\* C6: a reset is answered with the page and leaves the session without a
\* history, also when there was none; the next get_history returns the
\* system turn alone.
C6_ResetIdempotent ==
    \A r \in Requests :
        (IsReset(request[r]) /\ response[r].status # 0) =>
            /\ response[r] = IndexPage
            /\ "history" \notin DOMAIN open_session(cookie, expired).data
            /\ get_history(open_session(cookie, expired)).data["history"] = <<SystemTurn>>

C6_Witness ==
    \E r \in Requests :
        /\ IsReset(request[r])
        /\ response[r] = IndexPage
        /\ pre[r] = EmptyDict

\* Request r opened the session dict the client holds, or an empty one
\* because the cookie is older than the session lifetime.
OpenedWhatIsStored(r) == pre[r] = cookie \/ (expired /\ pre[r] = EmptyDict)

\* C7, as claimed: the messages a chat request passes to the completion
\* service are every turn stored since the last reset (the system turn alone
\* if there is none), followed by its user turn.
C7_GatewaySeesAllTurnsSinceReset ==
    \A r \in Requests :
        (request[r].route = "chat" /\ gateway[r].outcome = "pending") =>
            LET m == gateway[r].messages
            IN  SubSeq(m, 1, Len(m) - 1) =
                    IF written = <<>> THEN <<SystemTurn>> ELSE written

\* C7, amended: the messages a chat request passes to the completion service
\* are the history of the session it opened (the stored one, or none when
\* the cookie is older than the session lifetime), from the system turn on,
\* followed by its user turn; the session holds exactly these turns while
\* the call is pending, and the assistant turn follows them only once the
\* call has returned.
C7_GatewaySeesFullHistory ==
    \A r \in Requests :
        (request[r].route = "chat" /\ gateway[r].outcome # "none") =>
            LET before == HistoryBefore(pre[r])
                m == gateway[r].messages
            IN  /\ Len(m) = Len(before) + 1
                /\ SubSeq(m, 1, Len(before)) = before
                /\ Head(m) = SystemTurn
                /\ IsUserTurnOf(m[Len(m)], request[r])
                /\ gateway[r].outcome = "pending" =>
                      /\ StoredHistory(session[r].data) = m
                      /\ OpenedWhatIsStored(r)
                /\ gateway[r].outcome = "raised" => StoredHistory(cookie) = m
                /\ gateway[r].outcome = "returned" =>
                      StoredHistory(cookie) = Append(m, Turn("assistant", gateway[r].value))

C7_Witness ==
    \E r \in Requests :
        /\ request[r].route = "chat"
        /\ gateway[r].outcome = "pending"
        /\ \E i \in 1..Len(gateway[r].messages) - 2 :
              /\ gateway[r].messages[i].role = "user"
              /\ gateway[r].messages[i + 1].role = "user"

\* C8: a recommendation request leaves the stored history as it was, does
\* not touch its session, and calls the completion service with exactly the
\* system turn and the built prompt.
C8_RecommendationLeavesHistory ==
    \A r \in Requests :
        request[r].route = "rec" =>
            /\ OpenedWhatIsStored(r)
            /\ session[r] = open_session(pre[r], FALSE)
            /\ gateway[r].outcome # "none" =>
                  /\ Len(gateway[r].messages) = 2
                  /\ gateway[r].messages[1] = SystemTurn
                  /\ gateway[r].messages[2] =
                        Turn("user", PyStr(user_prompt(OrEmpty(request[r].body).d)))

C8_Witness ==
    \E r \in Requests :
        /\ request[r].route = "rec"
        /\ gateway[r].outcome = "raised"
        /\ Len(StoredHistory(cookie)) >= 3

\* C9, as claimed: unless a step is a reset, the history stored before it
\* is a prefix of the history stored after it, also when requests overlap.
C9_AppendsMonotonic ==
    [][written' # <<>> => IsPrefix(written, written')]_vars

\* Request r returns in this step, and the session it opened is not the one
\* the client holds: another request wrote after r opened it, or the cookie
\* was older than the session lifetime when r opened it.
StaleReturn(r) == pc[r] # "idle" /\ pc'[r] = "idle" /\ pre[r] # cookie

\* C9, amended: a step extends the stored history unless it is a reset or
\* the return of a request that opened another session than the stored one.
C9_AppendsMonotonicWithoutOverlap ==
    [][(written' # <<>> /\ ~\E r \in Requests : StaleReturn(r)) =>
          IsPrefix(written, written')]_vars

C9_Witness ==
    \E r, q \in Requests :
        /\ pc[q] = "chat_call"
        /\ pre[q] # cookie
        /\ request[r].route = "chat"
        /\ gateway[r].outcome = "returned"
        /\ cookie = session[r].data
        /\ Len(StoredHistory(pre[r])) >= 2

\* C10: a chat request answered 400 leaves the stored session as it was,
\* does not call the completion service and does not initialize the history.
C10_RejectedChatLeavesSession ==
    \A r \in Requests :
        (request[r].route = "chat" /\ response[r].status = 400) =>
            /\ OpenedWhatIsStored(r)
            /\ session[r] = open_session(pre[r], FALSE)
            /\ gateway[r] = NoCall
            /\ pc[r] = "idle"

C10_Witness ==
    \E r \in Requests :
        /\ request[r].route = "chat"
        /\ response[r].status = 400
        /\ pre[r] = EmptyDict
        /\ cookie = EmptyDict

====
